---- MODULE Spec2Model ----
(***************************************************************************)
(* A model of the news-summarization runner: src/run_summary.py            *)
(* (main, process_csv, call_openai_chat) and src/utils.py (render_prompt,  *)
(* retry_backoff).                                                         *)
(*                                                                         *)
(* A text is a tuple of one-character strings, so that str.strip() is      *)
(* computed and not assumed.  A CSV file is the tuple of its lines, a line *)
(* the tuple of its cells; the first line of a non-empty file is the       *)
(* header, whose cells are field names.  The datasets considered are       *)
(* rectangular: every data line has one cell per header field, so that     *)
(* csv.DictReader yields for each line a dict from the field names to      *)
(* texts.  The file system is a function from paths to contents.           *)
(*                                                                         *)
(* A run is one process: main, then process_csv.  The program can be run   *)
(* again on the file a finished run left.  A process can be interrupted at *)
(* any point.  Variables marked "history" record what a run did; the       *)
(* program does not read them.                                             *)
(***************************************************************************)
EXTENDS Integers, Sequences, FiniteSets, TLC

\* ------------------------------------------------------------------ bounds
MaxRows == 2            \* data rows of an input dataset
MaxRuns == 2            \* consecutive runs of the program on the same file
MaxRetriesArg == 3      \* largest max_retries the executor is called with on its own
MaxBaseArg == 2         \* largest base the executor is called with on its own

\* ------------------------------------------------------- program constants
CALL_MAX_RETRIES == 4   \* retry_backoff(_call, max_retries=4, ...)
CALL_BASE == 1          \* retry_backoff(_call, ..., base=1, ...)

\* ------------------------------------------------------------------- values
None == <<"None">>
NoExc == [cls |-> "NoneType", msg |-> "None"]

csv_path == "data/sample.csv"
tmp_path == "data/csvtmp.csv"
errors_log == "errors.log"

Range(s) == {s[k] : k \in DOMAIN s}
IndexOf(s, x) == CHOOSE k \in DOMAIN s : s[k] = x

\* str.strip(): leading and trailing whitespace removed
IsSpace(c) == c = " "
RECURSIVE lstrip(_)
lstrip(s) == IF s # <<>> /\ IsSpace(Head(s)) THEN lstrip(Tail(s)) ELSE s
RECURSIVE rstrip(_)
rstrip(s) == IF s # <<>> /\ IsSpace(s[Len(s)]) THEN rstrip(SubSeq(s, 1, Len(s) - 1)) ELSE s
strip(s) == rstrip(lstrip(s))

\* truth value of a str-or-None
Truthy(s) == s # None /\ s # <<>>

\* dict.get(key, default)
Get(row, key, default) == IF key \in DOMAIN row THEN row[key] ELSE default

\* row[key] = value
SetItem(r, key, value) ==
    [k \in DOMAIN r \cup {key} |-> IF k = key THEN value ELSE r[k]]

\* the test of line 160: `row.get("summary") and row.get("summary").strip()`
\* (variant: the test reads the key "Summary", which no row has)
HasSummary_wrongkey(row) ==
    /\ Truthy(Get(row, "Summary", None))
    /\ Truthy(strip(Get(row, "Summary", None)))
HasSummary(row) ==
    /\ Truthy(Get(row, "summary", None))
    /\ Truthy(strip(Get(row, "summary", None)))

\* the string literal of line 170
Placeholder == <<"[", "d", "r", "y", "-", "r", "u", "n", "]", " ", "s", "u", "m", "m", "a", "r", "y", " ", "w", "o", "u", "l", "d", " ", "b", "e", " ", "w", "r", "i", "t", "t", "e", "n", " ", "h", "e", "r", "e">>

\* utils.render_prompt with extras=None: every "{{ARTICLE}}" of the template
\* replaced by the article.  The template is a tuple of chunks, each a text
\* or the placeholder token.
ARTICLE == <<"{{ARTICLE}}">>
prompt_template == << <<"S", ":", " ">>, ARTICLE >>
RECURSIVE render_prompt(_, _)
render_prompt(template, article) ==
    IF template = <<>> THEN <<>>
    ELSE (IF Head(template) = ARTICLE THEN article ELSE Head(template))
             \o render_prompt(Tail(template), article)

\* csv.DictReader: fieldnames is the first line (None for an empty file), and
\* each later line becomes a dict keyed by the field names
ReaderFieldnames(file) == IF file = <<>> THEN None ELSE file[1]
ReaderRows(file) ==
    [k \in 1..(Len(file) - 1) |->
        [h \in Range(file[1]) |-> file[k + 1][IndexOf(file[1], h)]]]

\* csv.DictWriter(fieldnames=headers): writerow lays the dict's values out in
\* the order of the field names
\* (variant: the values are laid out one column off)
WriterLine_shifted(fieldnames, r) ==
    [k \in DOMAIN fieldnames |-> r[fieldnames[(k % Len(fieldnames)) + 1]]]
WriterLine(fieldnames, r) == [k \in DOMAIN fieldnames |-> r[fieldnames[k]]]

\* the header check of line 152
\* (variant: the summary column is not required)
BadHeaders_articleonly(h) ==
    \/ h = None
    \/ "article" \notin Range(h)
BadHeaders(h) ==
    \/ h = None
    \/ "article" \notin Range(h)
    \/ "summary" \notin Range(h)

\* ------------------------------------------------------------------- inputs
Digits == <<"1", "2", "3", "4", "5", "6", "7", "8", "9">>
SummaryCells == { <<>>, <<" ">>, <<" ", "o">> }
HeaderChoices ==
    { <<"id", "summary", "article", "note">>,
      <<"id", "article">>,
      <<"id", "summary">> }
InputLine(hdr, n, s) ==
    [k \in DOMAIN hdr |->
        CASE hdr[k] = "id" -> <<Digits[n]>>
          [] hdr[k] = "article" -> <<"a", Digits[n]>>
          [] hdr[k] = "summary" -> s
          [] OTHER -> <<"x">>]
InputFiles ==
    {<<>>} \cup
    UNION { UNION { { <<hdr>> \o [n \in 1..len |-> InputLine(hdr, n, ss[n])] :
                        ss \in [1..len -> SummaryCells] } :
                    len \in 0..MaxRows } :
            hdr \in HeaderChoices }

\* what the remote service answers to one request: a completion whose content
\* is `content`, or nothing the adapter can use (transport error, unknown shape)
Responses ==
    { [ok |-> FALSE, content |-> <<>>],
      [ok |-> TRUE, content |-> <<" ">>],
      [ok |-> TRUE, content |-> <<" ", "n", " ">>] }

\* outcomes of a callable
Return(v) == [kind |-> "return", val |-> v, exc |-> NoExc]
Raise(e) == [kind |-> "raise", val |-> None, exc |-> e]
RuntimeError(m) == [cls |-> "RuntimeError", msg |-> m]
ValueError(m) == [cls |-> "ValueError", msg |-> m]
TypeError(m) == [cls |-> "TypeError", msg |-> m]

\* isinstance(e, classes) for the classes used
Superclasses(c) ==
    CASE c \in {"RuntimeError", "ValueError", "TypeError"} -> {c, "Exception", "BaseException"}
      [] c = "Exception" -> {c, "BaseException"}
      [] OTHER -> {c}
\* (variant: a bare `except`)
Matches_any(e, classes) == TRUE
Matches(e, classes) == Superclasses(e.cls) \cap classes # {}

\* run_summary.call_openai_chat as the processor sees it: raises when the
\* package is missing or no interface yields a content, else returns the
\* content stripped
call_openai_chat(installed, resp) ==
    IF ~installed THEN Raise(RuntimeError("openai package not installed"))
    ELSE IF ~resp.ok
         THEN Raise(RuntimeError("Unable to call OpenAI chat completion with detected openai package interface"))
         ELSE Return(strip(resp.content))

\* the operation handed to retry_backoff on its own
OpOutcomes ==
    { Return(<<"v">>), Return(<<"w">>),
      Raise(RuntimeError("e1")), Raise(ValueError("e2")) }

\* -------------------------------------------------------------------- state
VARIABLES
    fs,            \* file system: path -> content
    api_key,       \* OPENAI_API_KEY is set
    openai,        \* the openai package was imported
    dry_run,       \* --dry-run
    run,           \* number of the current run of the program
    pc,            \* position of the running process
    exitStatus,    \* -1 while running, else the exit status of the process
    headers, rows, updated, i, prompt,               \* locals of process_csv
    summary,       \* the value retry_backoff returned (process_csv binds it to summary)
    w,             \* data rows written by the DictWriter so far
    func, max_retries, base, exceptions,             \* arguments of retry_backoff
    rb_i, last_exc, wait,                            \* locals of retry_backoff
    exc,           \* the exception raised by retry_backoff
    fs0,           \* history: the file system when the run started
    loaded,        \* history: the rows as loaded
    called,        \* history: indexes of the rows the adapter was invoked for
    anyFail,       \* history: an invocation of the adapter raised in this run
    outcome,       \* history: how each handled row ended
    trace,         \* history: outcomes of func in the current retry_backoff
    rbSleeps,      \* history: time.sleep arguments of the current retry_backoff
    pacings,       \* history: pacing delays of this run
    replaced,      \* history: os.replace calls of this run
    prevRun        \* history: the previous run

envVars == <<api_key, openai, dry_run, run>>
csvVars == <<headers, rows, updated, i, prompt, summary, w>>
argVars == <<func, max_retries, base, exceptions>>
rbVars == <<rb_i, last_exc, wait, exc, trace, rbSleeps>>
histVars == <<fs0, loaded, called, anyFail, outcome, pacings, replaced, prevRun>>
vars == <<fs, pc, exitStatus, envVars, csvVars, argVars, rbVars, histVars>>

NoPrev == [ran |-> FALSE, dry |-> FALSE, anyFail |-> FALSE, outcome |-> <<>>]

\* a fresh process: nothing loaded, no frame of retry_backoff
FreshLocals ==
    /\ headers = None /\ rows = <<>> /\ updated = FALSE /\ i = 0
    /\ prompt = None /\ summary = None /\ w = 0
    /\ func = "none" /\ max_retries = 0 /\ base = 0 /\ exceptions = {}
    /\ rb_i = 0 /\ last_exc = NoExc /\ wait = 0 /\ exc = NoExc
    /\ trace = <<>> /\ rbSleeps = <<>>
    /\ loaded = <<>> /\ called = {} /\ anyFail = FALSE /\ outcome = <<>>
    /\ pacings = 0 /\ replaced = 0

Init ==
    /\ fs \in { [p \in {csv_path} |-> f] : f \in InputFiles }
    /\ api_key \in BOOLEAN
    /\ openai \in BOOLEAN
    /\ dry_run \in BOOLEAN
    /\ run = 1
    /\ pc = "main"
    /\ exitStatus = -1
    /\ FreshLocals
    /\ fs0 = fs
    /\ prevRun = NoPrev

Running == pc \notin {"done", "exit", "interrupted"}

\* ------------------------------------------------------------------ actions
\* main, lines 214-222: without a key and without --dry-run, exit(1)
\* (variant: the key is not checked)
Main_nokeycheck ==
    /\ pc = "main"
    /\ pc' = "load"
    /\ UNCHANGED <<fs, exitStatus, envVars, csvVars, argVars, rbVars, histVars>>
Main ==
    /\ pc = "main"
    /\ IF ~dry_run /\ ~api_key
       THEN pc' = "exit" /\ exitStatus' = 1
       ELSE pc' = "load" /\ UNCHANGED exitStatus
    /\ UNCHANGED <<fs, envVars, csvVars, argVars, rbVars, histVars>>

\* process_csv, lines 145-156: read the header and the rows, or exit(1)
Load ==
    /\ pc = "load"
    /\ headers' = ReaderFieldnames(fs[csv_path])
    /\ IF BadHeaders(headers')
       THEN /\ pc' = "exit" /\ exitStatus' = 1
            /\ UNCHANGED <<rows, loaded>>
       ELSE /\ pc' = "loop"
            /\ rows' = ReaderRows(fs[csv_path])
            /\ loaded' = rows'
            /\ UNCHANGED exitStatus
    /\ UNCHANGED <<fs, envVars, updated, i, prompt, summary, w, argVars, rbVars,
                   fs0, called, anyFail, outcome, pacings, replaced, prevRun>>

\* the row the loop is at (enumerate is 0-based, tuples are 1-based)
AtRow == pc = "loop" /\ i < Len(rows)
row == rows[i + 1]

\* lines 159-161: a row with a non-blank summary is skipped
SkipRow ==
    /\ AtRow
    /\ HasSummary(row)
    /\ i' = i + 1
    /\ outcome' = Append(outcome, "skipped")
    /\ UNCHANGED <<fs, pc, exitStatus, envVars, headers, rows, updated, prompt, summary, w,
                   argVars, rbVars, fs0, loaded, called, anyFail, pacings,
                   replaced, prevRun>>

\* lines 162-172: dry run, the placeholder is stored and the dataset is dirty
\* (variant: the placeholder is stored in memory only, the dataset is not dirty)
DryRunRow_notdirty ==
    /\ AtRow
    /\ ~HasSummary(row)
    /\ dry_run
    /\ prompt' = render_prompt(prompt_template, Get(row, "article", <<>>))
    /\ rows' = [rows EXCEPT ![i + 1] = SetItem(@, "summary", Placeholder)]
    /\ i' = i + 1
    /\ outcome' = Append(outcome, "dry")
    /\ UNCHANGED <<fs, pc, exitStatus, envVars, headers, updated, summary, w, argVars,
                   rbVars, fs0, loaded, called, anyFail, pacings, replaced, prevRun>>
DryRunRow ==
    /\ AtRow
    /\ ~HasSummary(row)
    /\ dry_run
    /\ prompt' = render_prompt(prompt_template, Get(row, "article", <<>>))
    /\ rows' = [rows EXCEPT ![i + 1] = SetItem(@, "summary", Placeholder)]
    /\ updated' = TRUE
    /\ i' = i + 1
    /\ outcome' = Append(outcome, "dry")
    /\ UNCHANGED <<fs, pc, exitStatus, envVars, headers, summary, w, argVars, rbVars,
                   fs0, loaded, called, anyFail, pacings, replaced, prevRun>>

\* lines 162-178: the prompt is rendered and retry_backoff(_call, max_retries=4,
\* base=1, exceptions=(Exception,)) is entered (line 20: last_exc = None)
EnterRetry ==
    /\ prompt' = render_prompt(prompt_template, Get(row, "article", <<>>))
    /\ func' = "_call"
    /\ max_retries' = CALL_MAX_RETRIES
    /\ base' = CALL_BASE
    /\ exceptions' = {"Exception"}
    /\ rb_i' = 0 /\ last_exc' = NoExc /\ wait' = 0 /\ exc' = NoExc
    /\ trace' = <<>> /\ rbSleeps' = <<>>
    /\ pc' = "rb_loop"
    /\ UNCHANGED <<fs, exitStatus, envVars, headers, rows, updated, i, summary, w, histVars>>
\* (variant: the dry_run test of line 165 is missing)
BeginCall_nodrycheck ==
    /\ AtRow
    /\ ~HasSummary(row)
    /\ EnterRetry
BeginCall ==
    /\ AtRow
    /\ ~HasSummary(row)
    /\ ~dry_run
    /\ EnterRetry
\* line 21: `for i in range(max_retries)` still yields the value n
\* (variant: range(max_retries + 1))
InRange_inclusive(n, m) == n <= m
InRange(n, m) == n < m

\* line 26: wait = base * (2 ** i)
\* (variant: the attempt number counted from one)
Backoff_oneindexed(b, n) == b * (2 ^ (n + 1))
Backoff(b, n) == b * (2 ^ n)

\* what one invocation of func can do: _call is call_openai_chat(prompt, model)
FuncOutcomes ==
    IF func = "_call"
    THEN { call_openai_chat(openai, resp) : resp \in Responses }
    ELSE OpOutcomes

\* utils.retry_backoff, lines 21-26: one pass of the loop body up to the sleep.
\* A return leaves the function; an exception matching `exceptions` is kept in
\* last_exc and the wait is computed; any other exception propagates.
RbInvoke ==
    /\ pc = "rb_loop"
    /\ InRange(rb_i, max_retries)
    /\ \E o \in FuncOutcomes :
        /\ trace' = Append(trace, o)
        /\ called' = IF func = "_call" THEN called \cup {i} ELSE called
        /\ anyFail' = (anyFail \/ o.kind = "raise")
        /\ IF o.kind = "return"
           THEN /\ summary' = o.val
                /\ pc' = "rb_returned"
                /\ UNCHANGED <<last_exc, wait, exc>>
           ELSE IF Matches(o.exc, exceptions)
                THEN /\ last_exc' = o.exc
                     /\ wait' = Backoff(base, rb_i)
                     /\ pc' = "rb_sleep"
                     /\ UNCHANGED <<summary, exc>>
                ELSE /\ exc' = o.exc
                     /\ pc' = "rb_raised"
                     /\ UNCHANGED <<summary, last_exc, wait>>
    /\ UNCHANGED <<fs, exitStatus, envVars, headers, rows, updated, i, prompt, w, argVars,
                   rb_i, rbSleeps, fs0, loaded, outcome, pacings, replaced, prevRun>>

\* line 27, then the next value of range(max_retries)
\* (variant: the attempt number does not advance)
RbSleep_sameattempt ==
    /\ pc = "rb_sleep"
    /\ rbSleeps' = Append(rbSleeps, wait)
    /\ pc' = "rb_loop"
    /\ UNCHANGED <<fs, exitStatus, envVars, csvVars, argVars, rb_i, last_exc, wait, exc,
                   trace, histVars>>
RbSleep ==
    /\ pc = "rb_sleep"
    /\ rbSleeps' = Append(rbSleeps, wait)
    /\ rb_i' = rb_i + 1
    /\ pc' = "rb_loop"
    /\ UNCHANGED <<fs, exitStatus, envVars, csvVars, argVars, last_exc, wait, exc, trace,
                   histVars>>

\* line 28: the range is exhausted, `raise last_exc` (raising None is a TypeError)
RbRaise ==
    /\ pc = "rb_loop"
    /\ ~InRange(rb_i, max_retries)
    /\ exc' = IF last_exc = NoExc
              THEN TypeError("exceptions must derive from BaseException")
              ELSE last_exc
    /\ pc' = "rb_raised"
    /\ UNCHANGED <<fs, exitStatus, envVars, csvVars, argVars, rb_i, last_exc, wait, trace,
                   rbSleeps, histVars>>

\* the frame of retry_backoff is gone once process_csv has taken its result
NoFrame ==
    /\ func' = "none" /\ max_retries' = 0 /\ base' = 0 /\ exceptions' = {}
    /\ rb_i' = 0 /\ last_exc' = NoExc /\ wait' = 0 /\ exc' = NoExc
    /\ trace' = <<>> /\ rbSleeps' = <<>>

\* lines 185-186: the returned text is stored and the dataset is dirty
\* (the local `summary` is not read again before line 178 rebinds it)
StoreSummary ==
    /\ pc = "rb_returned"
    /\ func = "_call"
    /\ rows' = [rows EXCEPT ![i + 1] = SetItem(@, "summary", summary)]
    /\ updated' = TRUE
    /\ summary' = None
    /\ outcome' = Append(outcome, "ok")
    /\ NoFrame
    /\ pc' = "pace"
    /\ UNCHANGED <<fs, exitStatus, envVars, headers, i, prompt, w,
                   fs0, loaded, called, anyFail, pacings, replaced, prevRun>>

\* line 188: time.sleep(0.3), then the next row
Pace ==
    /\ pc = "pace"
    /\ pacings' = pacings + 1
    /\ i' = i + 1
    /\ pc' = "loop"
    /\ UNCHANGED <<fs, exitStatus, envVars, headers, rows, updated, prompt, summary, w,
                   argVars, rbVars, fs0, loaded, called, anyFail, outcome,
                   replaced, prevRun>>

\* open(path, "a") followed by one write of a line
AppendLine(f, path, line) ==
    [p \in DOMAIN f \cup {path} |->
        IF p = path THEN (IF path \in DOMAIN f THEN Append(f[path], line) ELSE <<line>>)
        ELSE f[p]]

\* lines 179-183: the exception is caught, one record goes to errors.log, next row
\* (variant: the pacing sleep follows the try statement, failed rows included)
LogError_paced ==
    /\ pc = "rb_raised"
    /\ func = "_call"
    /\ Matches(exc, {"Exception"})
    /\ fs' = AppendLine(fs, errors_log, [id |-> Get(row, "id", None), error |-> exc.msg])
    /\ outcome' = Append(outcome, "failed")
    /\ NoFrame
    /\ pacings' = pacings + 1
    /\ i' = i + 1
    /\ pc' = "loop"
    /\ UNCHANGED <<exitStatus, envVars, headers, rows, updated, prompt, summary, w,
                   fs0, loaded, called, anyFail, replaced, prevRun>>
\* (variant: the failure is logged and the process exits)
LogError_fatal ==
    /\ pc = "rb_raised"
    /\ func = "_call"
    /\ Matches(exc, {"Exception"})
    /\ fs' = AppendLine(fs, errors_log, [id |-> Get(row, "id", None), error |-> exc.msg])
    /\ outcome' = Append(outcome, "failed")
    /\ pc' = "exit"
    /\ exitStatus' = 1
    /\ UNCHANGED <<envVars, csvVars, argVars, rbVars, fs0, loaded, called, anyFail,
                   pacings, replaced, prevRun>>
LogError ==
    /\ pc = "rb_raised"
    /\ func = "_call"
    /\ Matches(exc, {"Exception"})
    /\ fs' = AppendLine(fs, errors_log, [id |-> Get(row, "id", None), error |-> exc.msg])
    /\ outcome' = Append(outcome, "failed")
    /\ NoFrame
    /\ i' = i + 1
    /\ pc' = "loop"
    /\ UNCHANGED <<exitStatus, envVars, headers, rows, updated, prompt, summary, w,
                   fs0, loaded, called, anyFail, pacings, replaced, prevRun>>

\* lines 190, 201-202: nothing was stored, nothing is written
NoUpdates ==
    /\ pc = "loop"
    /\ i >= Len(rows)
    /\ ~updated
    /\ pc' = "done"
    /\ exitStatus' = 0
    /\ UNCHANGED <<fs, envVars, csvVars, argVars, rbVars, histVars>>

\* the file the DictWriter writes to (line 193: a new file beside the dataset)
\* (variant: the dataset itself is opened for writing)
WriteTarget_inplace == csv_path
WriteTarget == tmp_path

\* lines 190-194: tempfile.mkstemp creates the empty file
\* (variant: the write block is indented into the loop body)
Mkstemp_inloop ==
    /\ pc = "loop"
    /\ updated
    /\ fs' = [p \in DOMAIN fs \cup {WriteTarget} |-> IF p = WriteTarget THEN <<>> ELSE fs[p]]
    /\ pc' = "writeheader"
    /\ UNCHANGED <<exitStatus, envVars, csvVars, argVars, rbVars, histVars>>
Mkstemp ==
    /\ pc = "loop"
    /\ i >= Len(rows)
    /\ updated
    /\ fs' = [p \in DOMAIN fs \cup {WriteTarget} |-> IF p = WriteTarget THEN <<>> ELSE fs[p]]
    /\ pc' = "writeheader"
    /\ UNCHANGED <<exitStatus, envVars, csvVars, argVars, rbVars, histVars>>

\* lines 195-196
WriteHeader ==
    /\ pc = "writeheader"
    /\ fs' = [fs EXCEPT ![WriteTarget] = Append(@, headers)]
    /\ w' = 0
    /\ pc' = "writerows"
    /\ UNCHANGED <<exitStatus, envVars, headers, rows, updated, i, prompt, summary,
                   argVars, rbVars, histVars>>

\* lines 197-198: one row
WriteRow ==
    /\ pc = "writerows"
    /\ w < Len(rows)
    /\ fs' = [fs EXCEPT ![WriteTarget] = Append(@, WriterLine(headers, rows[w + 1]))]
    /\ w' = w + 1
    /\ UNCHANGED <<pc, exitStatus, envVars, headers, rows, updated, i, prompt, summary,
                   argVars, rbVars, histVars>>

\* os.replace(src, dst): dst gets the content of src, which is gone
OsReplace(f, src, dst) ==
    IF src = dst THEN f
    ELSE [p \in (DOMAIN f \ {src}) \cup {dst} |-> IF p = dst THEN f[src] ELSE f[p]]

\* lines 199-200: the file is closed and moved over the dataset
Replace ==
    /\ pc = "writerows"
    /\ w >= Len(rows)
    /\ fs' = OsReplace(fs, WriteTarget, csv_path)
    /\ replaced' = replaced + 1
    /\ pc' = "done"
    /\ exitStatus' = 0
    /\ UNCHANGED <<envVars, csvVars, argVars, rbVars, fs0, loaded, called, anyFail,
                   outcome, pacings, prevRun>>

\* the process is interrupted (signal, KeyboardInterrupt): nothing of process_csv
\* or retry_backoff catches it, the process ends where it is
Interrupt ==
    /\ Running
    /\ pc' = "interrupted"
    /\ exitStatus' = 130
    /\ UNCHANGED <<fs, envVars, csvVars, argVars, rbVars, histVars>>

\* the program is run again on the same file, after a run that ended normally
StartRun ==
    /\ pc = "done"
    /\ run < MaxRuns
    /\ run' = run + 1
    /\ dry_run' \in BOOLEAN
    /\ prevRun' = [ran |-> TRUE, dry |-> dry_run, anyFail |-> anyFail, outcome |-> outcome]
    /\ pc' = "main"
    /\ exitStatus' = -1
    /\ headers' = None /\ rows' = <<>> /\ updated' = FALSE /\ i' = 0
    /\ prompt' = None /\ summary' = None /\ w' = 0
    /\ NoFrame
    /\ loaded' = <<>> /\ called' = {} /\ anyFail' = FALSE /\ outcome' = <<>>
    /\ pacings' = 0 /\ replaced' = 0
    /\ fs0' = fs
    /\ UNCHANGED <<fs, api_key, openai>>

Next ==
    \/ Main \/ Load
    \/ SkipRow \/ DryRunRow \/ BeginCall
    \/ RbInvoke \/ RbSleep \/ RbRaise
    \/ StoreSummary \/ Pace \/ LogError
    \/ NoUpdates \/ Mkstemp \/ WriteHeader \/ WriteRow \/ Replace
    \/ Interrupt \/ StartRun
Spec == Init /\ [][Next]_vars

\* a process that is not interrupted keeps running: every statement of main,
\* process_csv and retry_backoff completes, each call of the adapter returning
\* or raising and each sleep ending
ProcessStep ==
    \/ Main \/ Load
    \/ SkipRow \/ DryRunRow \/ BeginCall
    \/ RbInvoke \/ RbSleep \/ RbRaise
    \/ StoreSummary \/ Pace \/ LogError
    \/ NoUpdates \/ Mkstemp \/ WriteHeader \/ WriteRow \/ Replace
SpecLive == Init /\ [][Next]_vars /\ WF_vars(ProcessStep)

\* ------------------------------------------------ retry_backoff on its own
\* retry_backoff(op, max_retries, base, exceptions) called with arguments from
\* bounded sets, op being any callable that returns or raises
InitRetry ==
    /\ fs = [p \in {csv_path} |-> <<>>]
    /\ api_key = FALSE /\ openai = FALSE /\ dry_run = FALSE /\ run = 1
    /\ exitStatus = -1
    /\ headers = None /\ rows = <<>> /\ updated = FALSE /\ i = 0
    /\ prompt = None /\ summary = None /\ w = 0
    /\ func = "op"
    /\ max_retries \in 0..MaxRetriesArg
    /\ base \in 1..MaxBaseArg
    /\ exceptions \in { {"Exception"}, {"RuntimeError"} }
    /\ rb_i = 0 /\ last_exc = NoExc /\ wait = 0 /\ exc = NoExc
    /\ trace = <<>> /\ rbSleeps = <<>>
    /\ pc = "rb_loop"
    /\ fs0 = fs /\ loaded = <<>> /\ called = {} /\ anyFail = FALSE
    /\ outcome = <<>> /\ pacings = 0 /\ replaced = 0 /\ prevRun = NoPrev

NextRetry == RbInvoke \/ RbSleep \/ RbRaise
SpecRetry == InitRetry /\ [][NextRetry]_vars

\* ------------------------------------------------------------------- claims
\* a text with a character that is not whitespace
NonBlank(s) == \E k \in DOMAIN s : s[k] # " "
\* the dataset file as it was when the run started
loadedFile == fs0[csv_path]
\* the dataset the DictWriter produces from the rows in memory
NewContent ==
    <<headers>> \o [k \in DOMAIN rows |-> [c \in DOMAIN headers |-> rows[k][headers[c]]]]

\* C1: a row whose summary is non-blank at load is never sent to the adapter,
\* keeps every field in memory, and its line is the loaded line in the dataset
\* file and in the temporary file, at every point of the run.
C1_NonBlankRowUnchanged ==
    \A k \in DOMAIN loaded :
        NonBlank(loaded[k]["summary"]) =>
            /\ rows[k] = loaded[k]
            /\ (k - 1) \notin called
            /\ Len(fs[csv_path]) > k
            /\ fs[csv_path][k + 1] = loadedFile[k + 1]
            /\ (tmp_path \in DOMAIN fs /\ Len(fs[tmp_path]) > k
                    => fs[tmp_path][k + 1] = loadedFile[k + 1])

C1_Witness ==
    /\ pc = "done" /\ replaced = 1 /\ ~dry_run
    /\ \E k \in DOMAIN loaded : NonBlank(loaded[k]["summary"])
    /\ \E k \in DOMAIN loaded : rows[k] # loaded[k]

\* C2: until os.replace has run the dataset file is its pre-run content, at
\* every point of the run and after an interruption; afterwards it is the
\* complete new content.
C2_AtomicWrite ==
    /\ replaced = 0 => fs[csv_path] = loadedFile
    /\ replaced > 0 => fs[csv_path] = NewContent

C2_Witness ==
    /\ pc = "interrupted" /\ updated
    /\ tmp_path \in DOMAIN fs
    /\ Len(fs[tmp_path]) \in 1..Len(rows)
    /\ NewContent # loadedFile
    /\ fs[csv_path] = loadedFile

\* C3: a second run in the same mode, after a run in which no invocation of the
\* adapter raised, invokes the adapter for no row, replaces nothing and leaves
\* the dataset file as the first run left it.
C3_Idempotence ==
    (prevRun.ran /\ ~prevRun.anyFail /\ prevRun.dry = dry_run) =>
        /\ called = {}
        /\ replaced = 0
        /\ tmp_path \notin DOMAIN fs
        /\ fs[csv_path] = loadedFile

\* the loaded dataset with the placeholder in every blank summary cell
PlaceholdersIn(file) ==
    [n \in DOMAIN file |->
        IF n = 1 THEN file[1]
        ELSE [c \in DOMAIN file[n] |->
                IF file[1][c] = "summary" /\ ~NonBlank(file[n][c])
                THEN Placeholder ELSE file[n][c]]]

\* C4: a dry run never enters the retry executor and never invokes the adapter;
\* every handled row that was blank at load holds the placeholder, every other
\* row is as loaded; and when the run ends with a row touched the dataset file
\* has been replaced by the loaded content with the placeholders in it.
C4_DryRun ==
    dry_run =>
        /\ called = {} /\ func = "none" /\ trace = <<>>
        /\ pc \notin {"rb_loop", "rb_sleep", "rb_returned", "rb_raised", "pace"}
        /\ \A k \in DOMAIN loaded :
            rows[k] = IF k <= i /\ ~NonBlank(loaded[k]["summary"])
                      THEN [loaded[k] EXCEPT !["summary"] = Placeholder]
                      ELSE loaded[k]
        /\ pc = "done" =>
            /\ fs[csv_path] = PlaceholdersIn(loadedFile)
            /\ (\E k \in DOMAIN loaded : ~NonBlank(loaded[k]["summary"])) => replaced = 1

C4_Witness ==
    /\ dry_run /\ pc = "done" /\ replaced = 1
    /\ \E k \in DOMAIN loaded : NonBlank(loaded[k]["summary"])
    /\ \E k \in DOMAIN loaded : loaded[k]["summary"] = <<" ">>
    /\ fs[csv_path] # loadedFile

\* every failure of the operation so far is one the `exceptions` argument names
AllMatched ==
    \A j \in DOMAIN trace : trace[j].kind = "raise" => Matches(trace[j].exc, exceptions)
\* the operation has raised on every invocation so far
AllRaised == \A j \in DOMAIN trace : trace[j].kind = "raise"

\* C5: when retry_backoff returns, the operation was invoked k+1 <= max_retries
\* times, the first k raised and the last returned the value handed back, and
\* the sleeps were base*2^0, ..., base*2^(k-1) in that order (none for k = 0);
\* a successful invocation ends the executor at once, and the executor does not
\* give up while attempts remain.
C5_RetrySuccess ==
    /\ pc = "rb_returned" =>
        LET n == Len(trace) IN
        /\ n >= 1 /\ n <= max_retries
        /\ trace[n].kind = "return" /\ summary = trace[n].val
        /\ \A j \in 1..(n - 1) : trace[j].kind = "raise"
        /\ Len(rbSleeps) = n - 1
        /\ \A j \in 1..(n - 1) : rbSleeps[j] = base * (2 ^ (j - 1))
    /\ (trace # <<>> /\ trace[Len(trace)].kind = "return") => pc = "rb_returned"
    /\ (pc = "rb_raised" /\ AllMatched) => Len(trace) >= max_retries

C5_Witness ==
    /\ pc = "rb_returned" /\ func = "op"
    /\ Len(trace) = 3 /\ base = 2
    /\ rbSleeps = <<2, 4>>

\* C6: for max_retries >= 1, when every invocation raises a failure the executor
\* retries on, the operation is invoked exactly max_retries times, never more,
\* and the executor then raises the failure of the last invocation; it returns
\* no value.
C6_RetryExhausted ==
    /\ Len(trace) <= max_retries
    /\ AllRaised => (pc # "rb_returned" /\ summary = None)
    /\ (pc = "rb_raised" /\ max_retries >= 1 /\ AllRaised /\ AllMatched) =>
        /\ Len(trace) = max_retries
        /\ exc = trace[max_retries].exc

C6_Witness ==
    /\ pc = "rb_raised" /\ func = "op"
    /\ max_retries = 3 /\ Len(trace) = 3
    /\ AllRaised /\ AllMatched
    /\ trace[1].exc # trace[3].exc
    /\ exc = trace[3].exc

\* errors.log now and when the run started (absent = no line)
LogOf(f) == IF errors_log \in DOMAIN f THEN f[errors_log] ELSE <<>>
\* rows for which retry_backoff raised in this run
FailedRows == {k \in DOMAIN outcome : outcome[k] = "failed"}

\* what holds of a run at every point, as far as failed rows go
C7_State ==
    /\ Len(LogOf(fs)) = Len(LogOf(fs0)) + Cardinality(FailedRows)
    /\ SubSeq(LogOf(fs), 1, Len(LogOf(fs0))) = LogOf(fs0)
    /\ \A k \in FailedRows : rows[k] = loaded[k]
    /\ updated = (\E k \in DOMAIN outcome : outcome[k] \in {"dry", "ok"})
    /\ pc = "done" => Len(outcome) = Len(rows)
\* the step process_csv takes when retry_backoff has raised
C7_Step ==
    (pc = "rb_raised" /\ func = "_call" /\ pc' # "interrupted") =>
        /\ LogOf(fs') = Append(LogOf(fs), [id |-> rows[i + 1]["id"],
                                          error |-> trace[Len(trace)].exc.msg])
        /\ fs'[csv_path] = fs[csv_path]
        /\ DOMAIN fs' = DOMAIN fs \cup {errors_log}
        /\ rows' = rows /\ updated' = updated
        /\ i' = i + 1 /\ pc' = "loop"

\* C7: when retry_backoff raises for a row, process_csv appends one record with
\* the row's id and the error message to errors.log, changes neither the rows
\* nor the dirty flag, and moves to the next row; at every point of a run the
\* lines appended to errors.log are as many as the rows whose call failed, the
\* failed rows are as loaded, and a run that ends has handled every row.
C7_RowFailureNotFatal == [][C7_Step]_vars /\ []C7_State

C7_Witness ==
    /\ pc = "done" /\ replaced = 1
    /\ Len(outcome) = 2 /\ outcome[1] = "failed" /\ outcome[2] = "ok"
    /\ Len(LogOf(fs)) = Len(LogOf(fs0)) + 1
    /\ fs[errors_log][Len(fs[errors_log])].id = <<"1">>

\* C8: when a run ends, the dataset file has been replaced if and only if some
\* row's summary differs from its loaded value.
C8_RewrittenIffChanged ==
    pc = "done" =>
        (replaced > 0 <=> \E k \in DOMAIN loaded : rows[k]["summary"] # loaded[k]["summary"])

\* C9: the j-th sleep of retry_backoff lasts base*2^(j-1), and every sleep is
\* followed by an invocation of the operation: when the executor is left, it
\* has invoked the operation more often than it has slept.
C9_SleepThenRetry ==
    /\ \A j \in DOMAIN rbSleeps : rbSleeps[j] = base * (2 ^ (j - 1))
    /\ (pc \in {"rb_returned", "rb_raised"} /\ rbSleeps # <<>>) => Len(trace) > Len(rbSleeps)

\* a dataset without a header, or whose header lacks article or summary
SchemaBroken(file) ==
    \/ file = <<>>
    \/ "article" \notin Range(file[1])
    \/ "summary" \notin Range(file[1])

\* C10: on a dataset whose header is missing or lacks article or summary the
\* process never reaches the row loop: it exits with status 1 from the load,
\* with no prompt rendered, no row handled, no call made and the file system
\* (dataset, errors.log, temporary file) as it was when the run started.
C10_SchemaError ==
    SchemaBroken(loadedFile) =>
        /\ pc \in {"main", "load", "exit", "interrupted"}
        /\ pc = "exit" => exitStatus = 1
        /\ prompt = None /\ called = {} /\ outcome = <<>> /\ rows = <<>>
        /\ trace = <<>> /\ ~updated
        /\ fs = fs0

C10_Witness ==
    /\ pc = "exit" /\ exitStatus = 1
    /\ dry_run \/ api_key
    /\ Len(loadedFile) > 1
    /\ "article" \in Range(loadedFile[1])
    /\ "summary" \notin Range(loadedFile[1])

\* rows whose call succeeded in this run
OkRows == {k \in DOMAIN outcome : outcome[k] = "ok"}

\* the pacing delays of a run at every point: one per successful row, the one
\* of the row just stored still to come (a process interrupted before that
\* delay has ended without it)
C11_State ==
    /\ pc \notin {"pace", "interrupted"} => pacings = Cardinality(OkRows)
    /\ pc = "pace" => pacings = Cardinality(OkRows) - 1
    /\ pc = "interrupted" => pacings \in {Cardinality(OkRows) - 1, Cardinality(OkRows)}
    /\ pc = "pace" => (~dry_run /\ outcome # <<>> /\ outcome[Len(outcome)] = "ok"
                       /\ Len(outcome) = i + 1)
    /\ dry_run => pacings = 0
\* a pacing delay is the step after a successful call is stored and before the
\* next row; a step that ends a row in another way makes no pacing delay
C11_Step ==
    /\ (pc = "pace" /\ pc' # "interrupted") =>
            (pacings' = pacings + 1 /\ i' = i + 1 /\ pc' = "loop" /\ rows' = rows)
    /\ (pc # "pace" /\ run' = run) => pacings' = pacings
    /\ (pc = "rb_returned" /\ func = "_call" /\ pc' # "interrupted") => pc' = "pace"
    /\ (i' # i /\ run' = run /\ pc # "pace") => pacings' = pacings

\* C11: in a run exactly one pacing delay follows each row whose call
\* succeeded, before the next row starts; no pacing delay follows a dry-run
\* row, a failed row or a skipped row, so the pacing delays of a finished run
\* are as many as its successful rows.
C11_Pacing == [][C11_Step]_vars /\ []C11_State

C11_Witness ==
    /\ pc = "done" /\ ~dry_run
    /\ Len(outcome) = 2 /\ outcome[1] = "ok" /\ outcome[2] = "failed"
    /\ pacings = 1

\* a file that agrees with the loaded dataset in its first lines: the header
\* and, in every data line, every cell outside the summary column
AgreesWithLoaded(file) ==
    \A n \in DOMAIN file :
        /\ n <= Len(loadedFile)
        /\ IF n = 1 THEN file[1] = loadedFile[1]
           ELSE /\ Len(file[n]) = Len(loadedFile[n])
                /\ \A c \in DOMAIN file[n] :
                       loadedFile[1][c] # "summary" => file[n][c] = loadedFile[n][c]

\* C12: in memory the rows stay as many as loaded, in the loaded order, with
\* the loaded keys and with every value outside `summary` as loaded; the
\* temporary file agrees with the loaded dataset as far as it is written, and
\* a replaced dataset file has the loaded header, as many lines as the loaded
\* one and every cell outside the summary column as loaded.
C12_SchemaAndOrderKept ==
    /\ Len(rows) = Len(loaded)
    /\ \A k \in DOMAIN rows :
        /\ DOMAIN rows[k] = DOMAIN loaded[k]
        /\ \A f \in DOMAIN rows[k] \ {"summary"} : rows[k][f] = loaded[k][f]
    /\ pc \notin {"main", "load", "exit"} /\ ~(pc = "interrupted" /\ headers = None)
            => headers = loadedFile[1]
    /\ tmp_path \in DOMAIN fs => AgreesWithLoaded(fs[tmp_path])
    /\ replaced > 0 => (Len(fs[csv_path]) = Len(loadedFile) /\ AgreesWithLoaded(fs[csv_path]))

C12_Witness ==
    /\ pc = "done" /\ replaced = 1 /\ ~dry_run
    /\ Len(rows) = 2
    /\ fs[csv_path] # loadedFile
    /\ fs[csv_path][2] # loadedFile[2] /\ fs[csv_path][3] # loadedFile[3]

\* C13: without an API key and without --dry-run the process exits from main
\* with status 1: the dataset is never read, no prompt is rendered, no call is
\* made and the file system stays as it was; with --dry-run and no key the
\* process leaves main for process_csv, and exits only on a schema error.
C13_MissingCredential ==
    /\ (~api_key /\ ~dry_run) =>
        /\ pc \in {"main", "exit", "interrupted"}
        /\ pc = "exit" => exitStatus = 1
        /\ headers = None /\ rows = <<>> /\ loaded = <<>>
        /\ prompt = None /\ called = {} /\ trace = <<>> /\ outcome = <<>>
        /\ fs = fs0
    /\ (~api_key /\ dry_run /\ pc = "exit") => SchemaBroken(loadedFile)

C13_Witness ==
    /\ run = 2 /\ prevRun.ran /\ prevRun.dry
    /\ ~api_key /\ ~dry_run
    /\ pc = "exit" /\ exitStatus = 1
    /\ ~SchemaBroken(loadedFile)
    /\ \E n \in DOMAIN loadedFile : n > 1 /\ Placeholder \in Range(loadedFile[n])

\* the dataset file changes only in the replace step, taken once every row has
\* been handled and every row has been written to the temporary file
C14_Step ==
    fs'[csv_path] # fs[csv_path] =>
        /\ pc = "writerows" /\ pc' = "done"
        /\ replaced = 0 /\ replaced' = 1
        /\ i = Len(rows) /\ Len(outcome) = Len(rows)
        /\ w = Len(rows)
        /\ fs'[csv_path] = fs[tmp_path]
\* a run replaces at most once, at its end; while rows remain to be handled the
\* dataset file is as it was when the run started, whatever the rows in memory
C14_State ==
    /\ replaced \in {0, 1}
    /\ replaced = 1 => (pc = "done" /\ i = Len(rows) /\ Len(outcome) = Len(rows))
    /\ pc \in {"loop", "rb_loop", "rb_sleep", "rb_returned", "rb_raised", "pace"}
            => (replaced = 0 /\ fs[csv_path] = loadedFile /\ tmp_path \notin DOMAIN fs)
    /\ Len(outcome) <= Len(rows)

\* C14: in any run the dataset file is replaced at most once, only after every
\* row has been handled (skipped, placeholder, success, or failure logged), and
\* nothing obtained during the row loop reaches the dataset file before the
\* loop has finished.
C14_SinglePersistence == [][C14_Step]_vars /\ []C14_State

C14_Witness ==
    /\ pc = "done" /\ replaced = 1 /\ ~dry_run
    /\ Len(outcome) = 2 /\ outcome[1] = "ok" /\ outcome[2] = "failed"
    /\ fs[csv_path] # loadedFile

\* indexes (0-based) of the rows whose summary was blank at load
BlankAtLoad == {k - 1 : k \in {n \in DOMAIN loaded : ~NonBlank(loaded[n]["summary"])}}

\* the invocations of the adapter at every point of a run
C15_State ==
    /\ Len(trace) <= 4
    /\ called \subseteq BlankAtLoad
    /\ dry_run => called = {}
    /\ (func = "_call" /\ pc \in {"rb_sleep", "rb_returned", "rb_raised"})
            => (Len(trace) >= 1 /\ i \in called)
    /\ (func = "_call" /\ pc = "rb_raised") => Len(trace) = 4
    /\ \A k \in DOMAIN outcome : outcome[k] \in {"ok", "failed"} <=> (k - 1) \in called
    /\ (pc = "done" /\ ~dry_run) => called = BlankAtLoad
\* an invocation is one more for the row the loop is at, a blank one; the loop
\* never goes back to a row, and the count starts again with each row
C15_Step ==
    /\ (trace' # trace /\ trace' # <<>>) =>
            (Len(trace') = Len(trace) + 1 /\ i' = i /\ i \in BlankAtLoad /\ ~dry_run)
    /\ called' # called => (trace' # trace /\ trace' # <<>>) \/ run' # run
    /\ run' = run => i' \in {i, i + 1}
    /\ (run' = run /\ i' = i + 1) => trace' = <<>>

\* a run that has loaded its dataset ends, with the file written or with no
\* updates, unless the process is interrupted
C15_Terminates == (pc = "loop") ~> (pc \in {"done", "interrupted"})

\* C15: in a non-dry run the adapter is invoked between 1 and 4 times for each
\* row whose summary is blank at load and never for another row, each row being
\* handled once, so that the invocations of a run are at most 4 times its blank
\* rows; and the run reaches its end.
C15_BoundedWork == []C15_State /\ [][C15_Step]_vars /\ C15_Terminates

C15_Witness ==
    /\ pc = "done" /\ ~dry_run
    /\ Len(rows) = 2 /\ called = {1}
    /\ outcome = <<"skipped", "failed">>

\* the cell of the summary column in line n of a dataset file
SummaryCell(file, n) == file[n][CHOOSE c \in DOMAIN file[1] : file[1][c] = "summary"]
\* rows (1-based) the previous run wrote the placeholder into
DryRows == {k \in DOMAIN prevRun.outcome : prevRun.outcome[k] = "dry"}

\* C16: in the run that follows a dry run, every row the dry run touched has the
\* placeholder as its summary in the dataset file the run starts from; the run
\* loads the placeholder, never invokes the adapter for such a row and leaves
\* the placeholder in memory and in the dataset file.
C16_DryRunPersists ==
    (prevRun.ran /\ prevRun.dry) =>
        \A k \in DryRows :
            /\ SummaryCell(loadedFile, k + 1) = Placeholder
            /\ SummaryCell(fs[csv_path], k + 1) = Placeholder
            /\ (k - 1) \notin called
            /\ loaded # <<>> => (loaded[k]["summary"] = Placeholder /\ rows[k] = loaded[k])
            /\ Len(outcome) >= k => outcome[k] = "skipped"

C16_Witness ==
    /\ run = 2 /\ prevRun.ran /\ prevRun.dry /\ ~dry_run
    /\ pc = "done"
    /\ prevRun.outcome = <<"dry", "skipped">>
    /\ outcome = <<"skipped", "skipped">>
    /\ called = {}
    /\ SummaryCell(fs[csv_path], 2) = Placeholder

\* a failure the `exceptions` argument names: its class, or Exception for any
\* of the error classes
Eligible(e, classes) ==
    \/ e.cls \in classes
    \/ "Exception" \in classes /\ e.cls \in {"RuntimeError", "ValueError", "TypeError"}

\* C17: an invocation that raises a failure `exceptions` does not name is the
\* last one: the executor is left at once with that failure, having slept only
\* after the earlier, eligible failures; every invocation that was followed by
\* another one raised an eligible failure, and a sleep is only ever entered
\* with an eligible failure in last_exc.
C17_EligibilityFilter ==
    /\ \A j \in DOMAIN trace :
        (trace[j].kind = "raise" /\ ~Eligible(trace[j].exc, exceptions)) =>
            /\ j = Len(trace)
            /\ pc = "rb_raised"
            /\ exc = trace[j].exc
            /\ Len(rbSleeps) = j - 1
            /\ rb_i = j - 1
    /\ \A j \in DOMAIN trace :
        j < Len(trace) => (trace[j].kind = "raise" /\ Eligible(trace[j].exc, exceptions))
    /\ pc = "rb_sleep" => (Eligible(last_exc, exceptions) /\ last_exc = trace[Len(trace)].exc)

C17_Witness ==
    /\ func = "op" /\ exceptions = {"RuntimeError"} /\ max_retries = 3
    /\ pc = "rb_raised"
    /\ Len(trace) = 2
    /\ trace[1].exc.cls = "RuntimeError" /\ trace[2].exc.cls = "ValueError"
    /\ exc = trace[2].exc
    /\ Len(rbSleeps) = 1
====
